---- MODULE Spec2Model ----
(***************************************************************************)
(* simplelock: advisory file locking through a shared Mercurial "lock     *)
(* repository" (src/simplelock.py).                                        *)
(*                                                                         *)
(* The model has one authoritative (upstream, publishing) lock repository  *)
(* and one private mirror per client.  Every command of a client is a     *)
(* sequence of steps (lsync, the command's body, commit, push); commands   *)
(* of different clients interleave between steps.  The registry file       *)
(* `locked` is a sequence of lines, each line a sequence of characters     *)
(* (a word without white space is kept as one symbol).                     *)
(***************************************************************************)
EXTENDS Integers, Sequences, FiniteSets, TLC

VARIABLES upstream, mirror, pc, inv, out, ninv

vars == <<upstream, mirror, pc, inv, out, ninv>>

(***************************************************************************)
(* Bounds of the model.                                                    *)
(***************************************************************************)
\* total number of command invocations in one behaviour
MaxInv == 3
\* longest list of FILES given to one lock / unlock invocation
MaxArgs == 2

(***************************************************************************)
(* The characters of a registry line.                                      *)
(***************************************************************************)
TAB == "\t"
NL == "\n"
SP == " "

\* str.strip() with no argument removes these from both ends
IsSpace(ch) == ch \in {TAB, NL, SP}

\* A one-word string as a sequence of characters.
W(word) == <<word>>

\* ord() of the characters that path names are made of
Ord(ch) == CASE ch = TAB -> 9
             [] ch = NL -> 10
             [] ch = SP -> 32
             [] ch = "#" -> 35
             [] ch = "f" -> 102
             [] ch = "g" -> 103
             [] ch = "h" -> 104
             [] OTHER -> 122

(***************************************************************************)
(* The clients: each is a user with a work repository (a clone of the     *)
(* same repository, on the same named branch) and a private mirror of the  *)
(* lock repository.                                                        *)
(***************************************************************************)
Clients == {"alice", "bob"}

\* ui.username()
username(c) == W(c)
\* hex(repo[0].node())
repoid(c) == W("A")
\* repo.dirstate.branch()
curbranch(c) == W("default")

\* the paths a command line names, as m.files() returns them
Paths == {W("f"), W("g")}

\* m.files(): the list of the explicit files, duplicates kept, possibly empty
FileLists == UNION {[1..n -> Paths] : n \in 0..MaxArgs}

\* --purpose TEXT as the client gives it: alice gives none (''), bob gives
\* -p fix.  Fields are sanitized by the caller: no tab, no newline, no white
\* space at either end.
purposeopt(c) == IF c = "alice" THEN <<>> ELSE W("fix")

\* readlockables(repo): the files of the client's work repository that its
\* .hglocks patterns match, in the order of the status lists ([] when the
\* work repository has no .hglocks)
readlockables(c) == IF c = "alice" THEN <<W("h"), W("f")>> ELSE <<>>

(***************************************************************************)
(* Lock Record Codec.                                                      *)
(***************************************************************************)
RECURSIVE lstrip(_)
lstrip(s) == IF s # <<>> /\ IsSpace(Head(s)) THEN lstrip(Tail(s)) ELSE s

RECURSIVE rstrip(_)
rstrip(s) == IF s # <<>> /\ IsSpace(s[Len(s)])
               THEN rstrip(SubSeq(s, 1, Len(s) - 1))
               ELSE s

\* line.strip()
strip(s) == rstrip(lstrip(s))

\* s.split('\t'): the fields between the tabs, always at least one
RECURSIVE split(_)
split(s) ==
  IF \A i \in DOMAIN s : s[i] # TAB
    THEN <<s>>
    ELSE LET k == CHOOSE i \in DOMAIN s :
                     s[i] = TAB /\ \A j \in 1..(i - 1) : s[j] # TAB
         IN <<SubSeq(s, 1, k - 1)>> \o split(SubSeq(s, k + 1, Len(s)))

\* '\t'.join(fields)
RECURSIVE join(_)
join(fields) ==
  IF fields = <<>> THEN <<>>
  ELSE IF Len(fields) = 1 THEN fields[1]
  ELSE fields[1] \o <<TAB>> \o join(Tail(fields))

\* fields = line.strip().split('\t')
Fields(line) == split(strip(line))

\* '\t'.join([repoid, curbranch, wfile, user, purpose]) + '\n'
EncodeLine(rid, branch, wfile, user, purpose) ==
  join(<<rid, branch, wfile, user, purpose>>) \o <<NL>>

(***************************************************************************)
(* Files and changesets of the lock repository.                            *)
(***************************************************************************)
\* the registry file `locked`: absent, or its lines
NoFile == [exists |-> FALSE, lines |-> <<>>]
FileOf(ls) == [exists |-> TRUE, lines |-> ls]

\* lines found in a registry that is already in use: a line that is no
\* record, a record of another repository, a record of another named branch
JunkLine == <<"#", NL>>
OtherRepoLine == EncodeLine(W("B"), W("default"), W("f"), W("carol"), W("editing"))
OtherBranchLine == EncodeLine(W("A"), W("stable"), W("f"), W("carol"), W("editing"))

\* the registry file in the root changeset of the lock repository: not there
\* yet (a freshly initialized lock repository), or there and tracked, with
\* lines that are none of this repository and branch
InitFiles == {NoFile, FileOf(<<JunkLine, OtherRepoLine, OtherBranchLine>>)}

\* a changeset of the lock repository: the file in its manifest (absent:
\* not tracked), the upstream position of its parent, and who committed it
Changeset(f, p, u) == [file |-> f, parent |-> p, user |-> u]

\* the tip of the upstream repository
Tip == Len(upstream)

\* lockrepo['.']: the parent of the mirror's working directory
ParentFile(m) == IF m.local # <<>> THEN m.local[Len(m.local)]
                 ELSE upstream[m.base].file

\* lockrepo[None].dirty(): a tracked file is modified (untracked files do
\* not count)
dirty(m) == ParentFile(m).exists /\ m.wfile # ParentFile(m)

\* commands.update(clean=True): tracked files are reset, untracked ones stay
updateclean(m) == IF dirty(m) THEN [m EXCEPT !.wfile = ParentFile(m)] ELSE m

\* lockrepo.revs('outgoing()')
outgoing(m) == m.local

\* (mutant) the unpushed changesets are left in the mirror
strip_outgoing_kept(m) == m

\* stripcmd(force=True, rev=outgoing): the working directory moves to the
\* public parent of the stripped changesets
strip_outgoing(m) ==
  IF outgoing(m) # <<>>
    THEN [m EXCEPT !.local = <<>>,
                   !.wfile = IF upstream[m.base].file.exists
                               THEN upstream[m.base].file ELSE m.wfile]
    ELSE m

\* (mutant) lsync without the pull: the mirror stays where it was
pull_skipped(m) == m

\* commands.pull(update=True)
pull(m) == [m EXCEPT !.base = Tip,
                     !.wfile = IF upstream[Tip].file.exists
                                 THEN upstream[Tip].file ELSE m.wfile]

(***************************************************************************)
(* The state after construction: a lock repository with one changeset and  *)
(* a fresh clone of it for every client.                                   *)
(***************************************************************************)
NoInv == [cmd |-> "none", files |-> <<>>, purpose |-> <<>>, force |-> FALSE,
          unlocked |-> FALSE, retry |-> FALSE]

NoOut == [status |-> "none", warn |-> <<>>, listing |-> <<>>]

Init ==
  /\ \E f \in InitFiles :
       /\ upstream = <<Changeset(f, 0, "admin")>>
       /\ mirror = [c \in Clients |-> [base |-> 1, local |-> <<>>, wfile |-> f]]
  /\ pc = [c \in Clients |-> "idle"]
  /\ inv = [c \in Clients |-> NoInv]
  /\ out = [c \in Clients |-> NoOut]
  /\ ninv = 0

(***************************************************************************)
(* Lock State Reader.                                                      *)
(***************************************************************************)
NoLocks == [w \in {} |-> <<>>]

\* locks[wfile] = [user, purpose]: a later record of a path replaces an
\* earlier one
setitem(locks, wfile, value) ==
  [w \in DOMAIN locks \cup {wfile} |-> IF w = wfile THEN value ELSE locks[w]]

\* (mutant) the branch of the record is not compared with the caller's
parseLine_anybranch(locks, line, rid, branch) ==
  LET fields == Fields(line)
  IN IF Len(fields) # 5 THEN locks
     ELSE IF fields[1] = rid
            THEN setitem(locks, fields[3], <<fields[4], fields[5]>>)
            ELSE locks

\* one turn of the loop over the lines of the registry file
parseLine(locks, line, rid, branch) ==
  LET fields == Fields(line)
  IN IF Len(fields) # 5 THEN locks
     ELSE IF fields[1] = rid /\ fields[2] = branch
            THEN setitem(locks, fields[3], <<fields[4], fields[5]>>)
            ELSE locks

RECURSIVE parseLines(_, _, _, _)
parseLines(locks, lines, rid, branch) ==
  IF lines = <<>> THEN locks
  ELSE parseLines(parseLine(locks, Head(lines), rid, branch), Tail(lines),
                  rid, branch)

\* the mapping path -> <<user, purpose>> for one repository and branch;
\* a missing registry file gives the empty mapping (and a warning)
parseLocks(dfile, rid, branch) ==
  IF ~dfile.exists THEN NoLocks
  ELSE parseLines(NoLocks, dfile.lines, rid, branch)

(***************************************************************************)
(* lock: validation and the appended records.                              *)
(***************************************************************************)
\* (mutant) only the first target is looked up in the mapping
lockconflicts_first(locks, files) ==
  {i \in DOMAIN files : i = 1 /\ files[i] \in DOMAIN locks}

\* the positions of the targets that are already in the mapping
lockconflicts(locks, files) == {i \in DOMAIN files : files[i] \in DOMAIN locks}

\* opts.get('purpose') or 'editing'
purposeof(purpose) == IF purpose = <<>> THEN W("editing") ELSE purpose

\* the lines written in append mode, one per element of m.files()
RECURSIVE locklines(_, _, _, _, _)
locklines(files, rid, branch, user, purpose) ==
  IF files = <<>> THEN <<>>
  ELSE <<EncodeLine(rid, branch, Head(files), user, purpose)>>
         \o locklines(Tail(files), rid, branch, user, purpose)

(***************************************************************************)
(* unlock: the scan of the registry file.                                  *)
(***************************************************************************)
\* wfile in ulock
inlist(wfile, ulock) == \E i \in DOMAIN ulock : ulock[i] = wfile

\* (mutant) the branch of the record is not compared with the caller's
matches_anybranch(fields, rid, branch, ulock) ==
  fields[1] = rid /\ inlist(fields[3], ulock)

\* the record is one of the caller's repository and branch and is asked for
matches(fields, rid, branch, ulock) ==
  fields[1] = rid /\ fields[2] = branch /\ inlist(fields[3], ulock)

\* (mutant) the owner of the record is not compared with the caller
mayclear_anyone(user, curuser, force) == TRUE

\* user == curuser or opts.get('force', False)
mayclear(user, curuser, force) == user = curuser \/ force

\* the line is dropped and its path added to `cleared`
clears(line, rid, branch, ulock, curuser, force) ==
  LET fields == Fields(line)
  IN /\ Len(fields) = 5
     /\ matches(fields, rid, branch, ulock)
     /\ mayclear(fields[4], curuser, force)

\* outlines.append(line) is reached by the five-field lines that are not
\* cleared
keeps(line, rid, branch, ulock, curuser, force) ==
  /\ Len(Fields(line)) = 5
  /\ ~clears(line, rid, branch, ulock, curuser, force)

\* cleared: the set of the paths of the cleared lines
clearedset(lines, rid, branch, ulock, curuser, force) ==
  {Fields(lines[i])[3] : i \in {j \in DOMAIN lines :
                           clears(lines[j], rid, branch, ulock, curuser, force)}}

RECURSIVE outlines(_, _, _, _, _, _)
outlines(lines, rid, branch, ulock, curuser, force) ==
  IF lines = <<>> THEN <<>>
  ELSE (IF keeps(Head(lines), rid, branch, ulock, curuser, force)
          THEN <<Head(lines)>> ELSE <<>>)
       \o outlines(Tail(lines), rid, branch, ulock, curuser, force)

\* len(cleared) != len(ulock)
shortfall(cleared, ulock) == Cardinality(cleared) # Len(ulock)

\* the warning of a failed unlock
unlockwarning(cleared, ulock) ==
  IF Len(ulock) = 1 THEN <<"No locks found for specified file">>
  ELSE <<"Only %d of %d files were locked", Cardinality(cleared), Len(ulock)>>

(***************************************************************************)
(* locks: the listing.                                                     *)
(***************************************************************************)
\* Python's order of two strings
RECURSIVE strless(_, _)
strless(a, b) ==
  IF b = <<>> THEN FALSE
  ELSE IF a = <<>> THEN TRUE
  ELSE IF Head(a) = Head(b) THEN strless(Tail(a), Tail(b))
  ELSE Ord(Head(a)) < Ord(Head(b))

RECURSIVE sorted(_)
sorted(S) ==
  IF S = {} THEN <<>>
  ELSE LET least == CHOOSE x \in S : \A y \in S \ {x} : strless(x, y)
       IN <<least>> \o sorted(S \ {least})

\* set(lockables) | set(locks)
listed(locks, lockables) == {lockables[i] : i \in DOMAIN lockables} \cup DOMAIN locks

\* (mutant) lockables + locks.keys(), neither merged nor sorted
RECURSIVE listorder_concat(_, _)
listorder_concat(locks, lockables) ==
  IF locks = NoLocks THEN lockables
  ELSE LET wfile == CHOOSE x \in DOMAIN locks : TRUE
       IN listorder_concat([x \in DOMAIN locks \ {wfile} |-> locks[x]],
                           Append(lockables, wfile))

\* the order in which the paths are reported
listorder(locks, lockables) == sorted(listed(locks, lockables))

\* the status line of one path, if any
RECURSIVE statuslines(_, _, _)
statuslines(paths, locks, unlocked) ==
  IF paths = <<>> THEN <<>>
  ELSE LET wfile == Head(paths)
           here == IF wfile \in DOMAIN locks
                     THEN <<<<wfile, "is locked by", locks[wfile][1], "for",
                              locks[wfile][2]>>>>
                   ELSE IF unlocked THEN <<<<wfile, "is unlocked">>>>
                   ELSE <<>>
       IN here \o statuslines(Tail(paths), locks, unlocked)

\* what lockscmd prints
lockslisting(locks, lockables, unlocked) ==
  statuslines(listorder(locks, lockables), locks, unlocked)

(***************************************************************************)
(* Steps of a command.  pc[c] is the step client c's command is at:        *)
(* "idle" (no command running), "lsync", "lock" / "unlock" / "locks" (the  *)
(* command's body after lsync), "commit" and "push" (commitpush).          *)
(***************************************************************************)
\* the command of client c ends with this status
finish(c, status, warn, listing) ==
  /\ pc' = [pc EXCEPT ![c] = "idle"]
  /\ out' = [out EXCEPT ![c] = [status |-> status,
                                warn |-> out[c].warn \o warn,
                                listing |-> listing]]

\* the command of client c goes on with step `next`
goto(c, next, warn) ==
  /\ pc' = [pc EXCEPT ![c] = next]
  /\ out' = [out EXCEPT ![c].warn = out[c].warn \o warn]

\* a command line is entered
invoke(c, i) ==
  /\ pc[c] = "idle"
  /\ ninv < MaxInv
  /\ ninv' = ninv + 1
  /\ inv' = [inv EXCEPT ![c] = i]
  /\ pc' = [pc EXCEPT ![c] = "lsync"]
  /\ out' = [out EXCEPT ![c] = NoOut]
  /\ UNCHANGED <<upstream, mirror>>

\* hg lock [-p MESSAGE] FILES...
InvokeLock(c) ==
  \E files \in FileLists :
    invoke(c, [NoInv EXCEPT !.cmd = "lock", !.files = files,
                            !.purpose = purposeopt(c)])

\* hg unlock [-f] FILES...
InvokeUnlock(c) ==
  \E files \in FileLists, force \in BOOLEAN :
    invoke(c, [NoInv EXCEPT !.cmd = "unlock", !.files = files, !.force = force])

\* hg locks [-u]
InvokeLocks(c) ==
  \E unlocked \in BOOLEAN :
    invoke(c, [NoInv EXCEPT !.cmd = "locks", !.unlocked = unlocked])

\* the mirror once lsync has cleaned it and stripped the outgoing changesets
cleaned(m) == strip_outgoing(updateclean(m))

\* lsync, the pull succeeding
Lsync(c) ==
  /\ pc[c] = "lsync"
  /\ mirror' = [mirror EXCEPT ![c] = pull(cleaned(mirror[c]))]
  /\ goto(c, inv[c].cmd, <<>>)
  /\ UNCHANGED <<upstream, inv, ninv>>

\* (mutant) the error of the pull is swallowed and the command goes on
LsyncPullFails_ignored(c) ==
  /\ pc[c] = "lsync"
  /\ mirror' = [mirror EXCEPT ![c] = cleaned(mirror[c])]
  /\ goto(c, inv[c].cmd, <<>>)
  /\ UNCHANGED <<upstream, inv, ninv>>

\* lsync, the pull raising: the error leaves the command
LsyncPullFails(c) ==
  /\ pc[c] = "lsync"
  /\ mirror' = [mirror EXCEPT ![c] = cleaned(mirror[c])]
  /\ finish(c, "fatal", <<>>, <<>>)
  /\ UNCHANGED <<upstream, inv, ninv>>

\* parseLocks warns when the registry file is missing
parsewarning(dfile) ==
  IF dfile.exists THEN <<>> ELSE <<<<"Locked file not present, abort">>>>

\* the mapping client c reads from its mirror
mylocks(c) == parseLocks(mirror[c].wfile, repoid(c), curbranch(c))

\* lockcmd after lsync: validate, then append the records
LockBody(c) ==
  /\ pc[c] = "lock"
  /\ LET locks == mylocks(c)
         files == inv[c].files
         bad == lockconflicts(locks, files)
         first == CHOOSE i \in bad : \A j \in bad : i <= j
         added == locklines(files, repoid(c), curbranch(c), username(c),
                            purposeof(inv[c].purpose))
     IN IF bad # {}
          THEN /\ finish(c, "abort",
                         parsewarning(mirror[c].wfile)
                           \o <<<<"%s is already locked", files[first]>>>>,
                         <<>>)
               /\ UNCHANGED mirror
          ELSE /\ mirror' = [mirror EXCEPT ![c].wfile =
                               FileOf(mirror[c].wfile.lines \o added)]
               /\ goto(c, "commit", parsewarning(mirror[c].wfile))
  /\ UNCHANGED <<upstream, inv, ninv>>

\* unlockcmd after lsync: scan, compare the counts, rewrite the file
UnlockBody(c) ==
  /\ pc[c] = "unlock"
  /\ LET dfile == mirror[c].wfile
         ulock == inv[c].files
         cleared == clearedset(dfile.lines, repoid(c), curbranch(c), ulock,
                               username(c), inv[c].force)
         kept == outlines(dfile.lines, repoid(c), curbranch(c), ulock,
                          username(c), inv[c].force)
     IN IF ~dfile.exists
          THEN \* open(dfile, 'r') raises IOError
               /\ finish(c, "error", <<>>, <<>>)
               /\ UNCHANGED mirror
          ELSE IF shortfall(cleared, ulock)
          THEN /\ finish(c, "return 1", <<unlockwarning(cleared, ulock)>>, <<>>)
               /\ UNCHANGED mirror
          ELSE /\ mirror' = [mirror EXCEPT ![c].wfile = FileOf(kept)]
               /\ goto(c, "commit", <<>>)
  /\ UNCHANGED <<upstream, inv, ninv>>

\* lockscmd after lsync
LocksBody(c) ==
  /\ pc[c] = "locks"
  /\ finish(c, "ok", parsewarning(mirror[c].wfile),
            lockslisting(mylocks(c), readlockables(c), inv[c].unlocked))
  /\ UNCHANGED <<upstream, mirror, inv, ninv>>

\* commands.commit: a new local changeset when a tracked file is modified,
\* "nothing changed" otherwise
commit(m) == IF dirty(m) THEN [m EXCEPT !.local = Append(m.local, m.wfile)] ELSE m

Commit(c) ==
  /\ pc[c] = "commit"
  /\ mirror' = [mirror EXCEPT ![c] = commit(mirror[c])]
  /\ goto(c, "push", <<>>)
  /\ UNCHANGED <<upstream, inv, ninv>>

\* the changesets a push adds to the upstream repository
RECURSIVE pushed(_, _, _)
pushed(files, parent, user) ==
  IF files = <<>> THEN <<>>
  ELSE <<Changeset(Head(files), parent, user)>>
         \o pushed(Tail(files), parent + 1, user)

\* (mutant) commands.push(force=True): a new remote head is not refused
newremotehead_forced(m) == FALSE

\* the push would add a head: upstream has changesets the mirror lacks
newremotehead(m) == m.base # Tip

\* commands.push when nothing is outgoing: "no changes found", no error
PushNothing(c) ==
  /\ pc[c] = "push"
  /\ outgoing(mirror[c]) = <<>>
  /\ finish(c, "ok", <<>>, <<>>)
  /\ UNCHANGED <<upstream, mirror, inv, ninv>>

\* commands.push, accepted
PushOk(c) ==
  /\ pc[c] = "push"
  /\ outgoing(mirror[c]) # <<>>
  /\ ~newremotehead(mirror[c])
  /\ upstream' = upstream \o pushed(outgoing(mirror[c]), mirror[c].base, c)
  /\ mirror' = [mirror EXCEPT ![c] = [base |-> Len(upstream'), local |-> <<>>,
                                      wfile |-> mirror[c].wfile]]
  /\ finish(c, "ok", <<>>, <<>>)
  /\ UNCHANGED <<inv, ninv>>

\* (mutant) error.Abort is not caught: the command aborts without the warning
onpushabort_raised(c) == finish(c, "abort", <<>>, <<>>)

\* except error.Abort: the warning is printed and commitpush returns
pushwarning == <<"Lock push failed, please retry">>

onpushabort(c) == finish(c, "ok", <<pushwarning>>, <<>>)

\* commands.push raising error.Abort (a new remote head, or the transport)
PushFails(c) ==
  /\ pc[c] = "push"
  /\ outgoing(mirror[c]) # <<>>
  /\ onpushabort(c)
  /\ UNCHANGED <<upstream, mirror, inv, ninv>>

\* the process is killed after the registry file was written and before
\* the commit (killed at another step, it leaves the mirror as some other
\* step does)
Interrupt(c) ==
  /\ pc[c] = "commit"
  /\ finish(c, "killed", <<>>, <<>>)
  /\ UNCHANGED <<upstream, mirror, inv, ninv>>

Next ==
  \E c \in Clients :
    \/ InvokeLock(c)
    \/ InvokeUnlock(c)
    \/ InvokeLocks(c)
    \/ Lsync(c)
    \/ LsyncPullFails(c)
    \/ LockBody(c)
    \/ UnlockBody(c)
    \/ LocksBody(c)
    \/ Commit(c)
    \/ PushNothing(c)
    \/ PushOk(c)
    \/ PushFails(c)
    \/ Interrupt(c)

Spec == Init /\ [][Next]_vars

(***************************************************************************)
(* Vocabulary of the properties.                                           *)
(***************************************************************************)
\* the registry file of the upstream tip
Registry == upstream[Tip].file

\* a line that decodes to a record
IsRecord(line) == Len(Fields(line)) = 5

\* line is a record of (rid, branch, wfile)
IsRecordOf(line, rid, branch, wfile) ==
  /\ IsRecord(line)
  /\ Fields(line)[1] = rid
  /\ Fields(line)[2] = branch
  /\ Fields(line)[3] = wfile

\* the lines among `lines` that are records of (rid, branch, wfile), in order
RECURSIVE RecordLines(_, _, _, _)
RecordLines(lines, rid, branch, wfile) ==
  IF lines = <<>> THEN <<>>
  ELSE (IF IsRecordOf(Head(lines), rid, branch, wfile)
          THEN <<Head(lines)>> ELSE <<>>)
       \o RecordLines(Tail(lines), rid, branch, wfile)

\* the records of file f for client c's repository and branch and path wfile
RecordsFor(f, c, wfile) == RecordLines(f.lines, repoid(c), curbranch(c), wfile)

\* the owners of these records, in order
Owners(f, c, wfile) ==
  [i \in DOMAIN RecordsFor(f, c, wfile) |-> Fields(RecordsFor(f, c, wfile)[i])[4]]

\* file f holds exactly one record of wfile, and user c owns it
OnlyRecordIsOf(f, c, wfile) == Owners(f, c, wfile) = <<username(c)>>

\* the number of records of wfile in file f that user c owns
OwnCount(f, c, wfile) ==
  Cardinality({i \in DOMAIN Owners(f, c, wfile) :
                 Owners(f, c, wfile)[i] = username(c)})

\* the elements of a list, as a set
Elems(list) == {list[i] : i \in DOMAIN list}

\* no element twice
NoDup(list) == \A i, j \in DOMAIN list : i # j => list[i] # list[j]

\* client c's command has moved in this step
Moved(c) == pc'[c] # pc[c]

\* the retry warning is among the warnings
HasPushWarning(warn) == \E i \in DOMAIN warn : warn[i] = pushwarning

\* the last command of c was `cmd` and has returned normally
Returned(c, cmd) == pc[c] = "idle" /\ inv[c].cmd = cmd /\ out[c].status = "ok"

\* the last command of c printed the retry warning
Warned(c) == HasPushWarning(out[c].warn)

(***************************************************************************)
(* C1: in every state of the upstream registry no two records share the    *)
(* same (repoIdentity, branch, path).                                      *)
(***************************************************************************)
C1_UniqueRecords ==
  \A i, j \in DOMAIN Registry.lines :
    (/\ i # j
     /\ IsRecord(Registry.lines[i])
     /\ IsRecord(Registry.lines[j]))
    => SubSeq(Fields(Registry.lines[i]), 1, 3)
         # SubSeq(Fields(Registry.lines[j]), 1, 3)

(***************************************************************************)
(* C2: two clients of one repository and branch have both reconciled and   *)
(* both committed a lock record of the same path, and neither has pushed:  *)
(* at most one of the two pushes succeeds, the upstream registry ends with *)
(* exactly one record of the path, owned by the client that pushed first,  *)
(* and the upstream history stays one line of registry versions.           *)
(***************************************************************************)
\* every upstream changeset is the child of the one before it
Linear == \A i \in 1..Tip : upstream[i].parent = i - 1

\* mirror m of client c holds one unpushed changeset, which adds one record
\* of wfile, c's, to the upstream version `up[m.base]` c reconciled with
AddsRecord(up, m, c, wfile) ==
  /\ Len(m.local) = 1
  /\ OnlyRecordIsOf(m.local[1], c, wfile)
  /\ RecordsFor(up[m.base].file, c, wfile) = <<>>

\* both have committed, neither has pushed
Racing(a, b, wfile) ==
  /\ a # b
  /\ pc[a] = "push" /\ pc[b] = "push"
  /\ AddsRecord(upstream, mirror[a], a, wfile)
  /\ AddsRecord(upstream, mirror[b], b, wfile)

\* a has pushed first: the tip of `up` is a's changeset, pushed after b
\* reconciled, it holds one record of wfile that a owns, and b's changeset
\* (in b's mirror m) is still unpushed
PushedFirst(up, m, a, b, wfile) ==
  /\ a # b
  /\ m.base < Len(up)
  /\ up[Len(up)].user = a
  /\ AddsRecord(up, m, b, wfile)
  /\ OwnCount(up[Len(up)].file, a, wfile) = 1

C2_RaceStep ==
  \A a, b \in Clients : \A wfile \in Paths :
    /\ (Moved(a) /\ upstream' # upstream /\ Racing(a, b, wfile))
         => PushedFirst(upstream', mirror'[b], a, b, wfile)
    /\ (pc[b] = "push" /\ Moved(b) /\ PushedFirst(upstream, mirror[b], a, b, wfile))
         => /\ upstream' = upstream
            /\ mirror'[b] = mirror[b]
            /\ HasPushWarning(out'[b].warn)

C2_RaceState ==
  /\ Linear
  /\ \A a, b \in Clients : \A wfile \in Paths :
       PushedFirst(upstream, mirror[b], a, b, wfile)
         => OnlyRecordIsOf(Registry, a, wfile)

C2_Race == [](C2_RaceState) /\ [][C2_RaceStep]_vars

\* a's push was accepted while b, which reconciled before it, holds its
\* changeset and has yet to push
C2_Witness ==
  \E a, b \in Clients : \E wfile \in Paths :
    /\ PushedFirst(upstream, mirror[b], a, b, wfile)
    /\ Returned(a, "lock") /\ ~Warned(a)
    /\ pc[b] = "push" /\ inv[b].cmd = "lock"

(***************************************************************************)
(* C3: a lock invocation one of whose targets is, after the reconcile, in  *)
(* the lock mapping of the caller's repository and branch (whoever owns    *)
(* the record) aborts with "already locked" and changes neither the        *)
(* mirror nor the upstream registry; repeated on the same state it fails   *)
(* the same way.                                                           *)
(***************************************************************************)
\* a target of c's command is in the mapping c reads from its mirror
TargetLocked(c) ==
  \E i \in DOMAIN inv[c].files : inv[c].files[i] \in DOMAIN mylocks(c)

\* the abort names a target that is in the mapping
AlreadyLockedError(c, warn) ==
  \E i \in DOMAIN inv[c].files : \E k \in DOMAIN warn :
    /\ inv[c].files[i] \in DOMAIN mylocks(c)
    /\ warn[k] = <<"%s is already locked", inv[c].files[i]>>

C3_Step ==
  \A c \in Clients :
    (pc[c] = "lock" /\ Moved(c) /\ TargetLocked(c))
      => /\ pc'[c] = "idle"
         /\ out'[c].status = "abort"
         /\ AlreadyLockedError(c, out'[c].warn)
         /\ mirror' = mirror
         /\ upstream' = upstream

\* after the abort the conflict is still in the mirror, and a reconcile with
\* an unchanged upstream gives the same mirror again
C3_State ==
  \A c \in Clients :
    (pc[c] = "idle" /\ inv[c].cmd = "lock" /\ out[c].status = "abort")
      => /\ TargetLocked(c)
         /\ (mirror[c].base = Tip => pull(cleaned(mirror[c])) = mirror[c])

C3_AlreadyLocked == [](C3_State) /\ [][C3_Step]_vars

\* a lock has aborted on a target that the caller itself holds
C3_Witness ==
  \E c \in Clients : \E i \in DOMAIN inv[c].files :
    /\ pc[c] = "idle" /\ inv[c].cmd = "lock" /\ out[c].status = "abort"
    /\ inv[c].files[i] \in DOMAIN mylocks(c)
    /\ mylocks(c)[inv[c].files[i]][1] = username(c)

(***************************************************************************)
(* C4: an unlock without force succeeds only if every requested path has   *)
(* a record of the caller's repository and branch that the caller owns;    *)
(* when fewer records are cleared than paths were requested it returns 1   *)
(* and writes, commits and pushes nothing.                                 *)
(***************************************************************************)
\* the number of lines of `lines` that a non-forced unlock of `ulock` by c
\* clears: the records of c's repository and branch, of a requested path,
\* that c owns
RECURSIVE OwnRequested(_, _, _)
OwnRequested(lines, c, ulock) ==
  IF lines = <<>> THEN 0
  ELSE (IF /\ IsRecord(Head(lines))
           /\ Fields(Head(lines))[1] = repoid(c)
           /\ Fields(Head(lines))[2] = curbranch(c)
           /\ Fields(Head(lines))[3] \in Elems(ulock)
           /\ Fields(Head(lines))[4] = username(c)
          THEN 1 ELSE 0)
       + OwnRequested(Tail(lines), c, ulock)

C4_Step ==
  \A c \in Clients :
    (pc[c] = "unlock" /\ Moved(c) /\ ~inv[c].force)
      => /\ pc'[c] = "commit"
              => \A i \in DOMAIN inv[c].files :
                   OwnCount(mirror[c].wfile, c, inv[c].files[i]) >= 1
         /\ OwnRequested(mirror[c].wfile.lines, c, inv[c].files) < Len(inv[c].files)
              => /\ pc'[c] = "idle"
                 /\ out'[c].status = "return 1"
                 /\ mirror' = mirror
                 /\ upstream' = upstream

C4_UnlockOwned == [][C4_Step]_vars

(***************************************************************************)
(* C5: no record is ever removed from the upstream registry by an unlock   *)
(* that was run without force by a user who is not the record's owner.     *)
(***************************************************************************)
\* the records among `lines` (of any repository and branch) whose owner is
\* not `user`, in order
RECURSIVE RecordsOfOthers(_, _)
RecordsOfOthers(lines, user) ==
  IF lines = <<>> THEN <<>>
  ELSE (IF IsRecord(Head(lines)) /\ Fields(Head(lines))[4] # user
          THEN <<Head(lines)>> ELSE <<>>)
       \o RecordsOfOthers(Tail(lines), user)

C5_Step ==
  \A c \in Clients :
    (upstream' # upstream /\ Moved(c) /\ inv[c].cmd = "unlock" /\ ~inv[c].force)
      => RecordsOfOthers(upstream'[Len(upstream')].file.lines, username(c))
           = RecordsOfOthers(Registry.lines, username(c))

C5_OwnerOnly == [][C5_Step]_vars

\* an unlock without force has been pushed while another client of the
\* repository holds a lock
C5_Witness ==
  \E c, d \in Clients : \E wfile \in Paths :
    /\ c # d
    /\ Returned(c, "unlock") /\ ~inv[c].force /\ ~Warned(c)
    /\ Tip > 1 /\ mirror[c].base = Tip /\ upstream[Tip].user = c
    /\ Registry # upstream[Tip - 1].file
    /\ OwnCount(upstream[Tip - 1].file, d, wfile) = 1
    /\ OwnCount(Registry, d, wfile) = 1

(***************************************************************************)
(* C6: an unlock with force removes a record whoever owns it: when every   *)
(* requested path has a record for the caller's repository and branch the  *)
(* unlock goes on to the commit and removes exactly the records of the     *)
(* requested paths, so that with force a shortfall only comes from a       *)
(* requested path without any record.                                      *)
(***************************************************************************)
\* the records among `lines`, in order
RECURSIVE RecordsOnly(_)
RecordsOnly(lines) ==
  IF lines = <<>> THEN <<>>
  ELSE (IF IsRecord(Head(lines)) THEN <<Head(lines)>> ELSE <<>>)
       \o RecordsOnly(Tail(lines))

\* the records among `lines` other than those of c's repository and branch
\* for a path of `ulock`, in order
RECURSIVE RecordsNotOf(_, _, _)
RecordsNotOf(lines, c, ulock) ==
  IF lines = <<>> THEN <<>>
  ELSE (IF /\ IsRecord(Head(lines))
           /\ ~(/\ Fields(Head(lines))[1] = repoid(c)
                /\ Fields(Head(lines))[2] = curbranch(c)
                /\ Fields(Head(lines))[3] \in Elems(ulock))
          THEN <<Head(lines)>> ELSE <<>>)
       \o RecordsNotOf(Tail(lines), c, ulock)

C6_Step ==
  \A c \in Clients :
    (/\ pc[c] = "unlock" /\ Moved(c) /\ inv[c].force
     /\ mirror[c].wfile.exists
     /\ \A i \in DOMAIN inv[c].files :
          RecordsFor(mirror[c].wfile, c, inv[c].files[i]) # <<>>)
      => /\ pc'[c] = "commit"
         /\ RecordsOnly(mirror'[c].wfile.lines)
              = RecordsNotOf(mirror[c].wfile.lines, c, inv[c].files)

C6_ForceUnlock == [][C6_Step]_vars

(***************************************************************************)
(* C7: when client a has pushed its lock of a path while client b holds a  *)
(* committed, unpushed lock of the same path, b's push is rejected; the    *)
(* reconcile of b's next command strips b's commit and pulls a's, after    *)
(* which b's mapping shows the path locked by a and b's mirror holds no    *)
(* record of b for it; b's record never is in the upstream registry.       *)
(***************************************************************************)
C7_Step ==
  \A a, b \in Clients : \A wfile \in Paths :
    /\ (pc[b] = "push" /\ Moved(b) /\ PushedFirst(upstream, mirror[b], a, b, wfile))
         => /\ upstream' = upstream
            /\ pc'[b] = "idle"
            /\ HasPushWarning(out'[b].warn)
    /\ (/\ pc[b] = "lsync" /\ Moved(b) /\ pc'[b] # "idle"
        /\ PushedFirst(upstream, mirror[b], a, b, wfile))
         => /\ mirror'[b].local = <<>>
            /\ mirror'[b].base = Tip
            /\ mirror'[b].wfile = Registry
            /\ OwnCount(mirror'[b].wfile, b, wfile) = 0
            /\ wfile \in DOMAIN parseLocks(mirror'[b].wfile, repoid(b), curbranch(b))
            /\ parseLocks(mirror'[b].wfile, repoid(b), curbranch(b))[wfile][1]
                 = username(a)

\* while b's lock is unpushed, no upstream changeset after b's base holds a
\* record of b for the path
C7_State ==
  \A a, b \in Clients : \A wfile \in Paths :
    PushedFirst(upstream, mirror[b], a, b, wfile)
      => \A i \in (mirror[b].base + 1)..Tip :
           OwnCount(upstream[i].file, b, wfile) = 0

C7_LoserReconciles == [](C7_State) /\ [][C7_Step]_vars

\* b's push was refused with the warning and b has started its next
\* command: its reconcile is the next step, a's record is at the tip
C7_Witness ==
  \E a, b \in Clients : \E wfile \in Paths :
    /\ PushedFirst(upstream, mirror[b], a, b, wfile)
    /\ pc[b] = "lsync"
    /\ pc[a] = "idle"

(***************************************************************************)
(* C8: a push of lock or unlock that fails (the upstream rejects it, or    *)
(* the transport aborts) is caught: the command prints the retry warning   *)
(* and returns normally; the commit stays in the mirror, unpublished, and  *)
(* the upstream is unchanged.                                              *)
(***************************************************************************)
C8_Step ==
  \A c \in Clients :
    /\ (pc[c] = "push" /\ Moved(c) /\ mirror[c].local # <<>> /\ mirror[c].base # Tip)
         => upstream' = upstream
    /\ (pc[c] = "push" /\ Moved(c) /\ mirror[c].local # <<>> /\ upstream' = upstream)
         => /\ pc'[c] = "idle"
            /\ out'[c].status = "ok"
            /\ out'[c].warn = Append(out[c].warn, pushwarning)
            /\ mirror' = mirror

\* a command that printed the retry warning returned normally and left its
\* commit in the mirror only
C8_State ==
  \A c \in Clients :
    (pc[c] = "idle" /\ Warned(c))
      => /\ inv[c].cmd \in {"lock", "unlock"}
         /\ out[c].status = "ok"
         /\ mirror[c].local # <<>>
         /\ mirror[c].wfile = mirror[c].local[Len(mirror[c].local)]

C8_PushFailure == [](C8_State) /\ [][C8_Step]_vars

\* an unlock has returned with the retry warning; its commit is in the mirror
C8_Witness ==
  \E c \in Clients :
    /\ Returned(c, "unlock") /\ Warned(c)
    /\ mirror[c].local # <<>>
    /\ mirror[c].wfile = mirror[c].local[Len(mirror[c].local)]
    /\ mirror[c].wfile # Registry

(***************************************************************************)
(* C9: after lock invocations on pairwise disjoint path sets, by clients   *)
(* of one repository and branch, the upstream registry holds exactly one   *)
(* record per requested (repository, branch, path), and a locks listing    *)
(* run next reports exactly the requested paths, each with the owner that  *)
(* acquired it.                                                            *)
(***************************************************************************)
\* the clients that have run a command
Ran == {c \in Clients : inv[c].cmd # "none"}

\* every command run so far was a lock that returned without warning, one
\* per client, and the requested path sets are pairwise disjoint
OnlyDisjointLocks ==
  /\ Ran # {}
  /\ ninv = Cardinality(Ran)
  /\ \A c \in Clients : pc[c] = "idle"
  /\ \A c \in Ran : Returned(c, "lock") /\ ~Warned(c) /\ NoDup(inv[c].files)
  /\ \A c, d \in Ran : c # d => Elems(inv[c].files) \cap Elems(inv[d].files) = {}

\* what `hg locks` run next by client c prints
NextListing(c) ==
  lockslisting(parseLocks(pull(cleaned(mirror[c])).wfile, repoid(c), curbranch(c)),
               readlockables(c), FALSE)

C9_DisjointLocks ==
  OnlyDisjointLocks
    => /\ \A wfile \in Paths : \A c \in Clients :
            IF c \in Ran /\ wfile \in Elems(inv[c].files)
              THEN OnlyRecordIsOf(Registry, c, wfile)
              ELSE OwnCount(Registry, c, wfile) = 0
       /\ \A d \in Clients :
            LET listing == NextListing(d)
            IN /\ \A k \in DOMAIN listing :
                    \E c \in Ran : /\ listing[k][1] \in Elems(inv[c].files)
                                   /\ listing[k][3] = username(c)
               /\ \A c \in Ran : \A i \in DOMAIN inv[c].files :
                    Cardinality({k \in DOMAIN listing :
                                   listing[k][1] = inv[c].files[i]}) = 1

(***************************************************************************)
(* C10: the listing of locks is in ascending lexicographic order of path,  *)
(* each path at most once; for the same registry and lockable set the      *)
(* listing without the unlocked flag is the listing with the flag less its *)
(* "is unlocked" lines, which are those of the lockable paths that are not *)
(* locked.                                                                 *)
(***************************************************************************)
\* the status lines of `listing` that report a lock, in order
RECURSIVE LockedLines(_)
LockedLines(listing) ==
  IF listing = <<>> THEN <<>>
  ELSE (IF Len(Head(listing)) = 5 THEN <<Head(listing)>> ELSE <<>>)
       \o LockedLines(Tail(listing))

Ascending(listing) ==
  \A i, j \in DOMAIN listing : i < j => strless(listing[i][1], listing[j][1])

C10_Listing ==
  \A c \in Clients :
    Returned(c, "locks")
      => LET other == lockslisting(mylocks(c), readlockables(c), ~inv[c].unlocked)
             with == IF inv[c].unlocked THEN out[c].listing ELSE other
             without == IF inv[c].unlocked THEN other ELSE out[c].listing
         IN /\ Ascending(out[c].listing)
            /\ Ascending(other)
            /\ without = LockedLines(with)
            /\ \A wfile \in Elems(readlockables(c)) \cup Paths :
                 Cardinality({k \in DOMAIN with :
                                with[k] = <<wfile, "is unlocked">>})
                   = IF wfile \in Elems(readlockables(c)) /\ wfile \notin DOMAIN mylocks(c)
                       THEN 1 ELSE 0
            /\ \A k \in DOMAIN with :
                 Len(with[k]) = 2 => with[k][2] = "is unlocked"

\* a listing with the unlocked flag that has a locked path between two
\* unlocked ones
C10_Witness ==
  \E c \in Clients :
    /\ Returned(c, "locks") /\ inv[c].unlocked
    /\ Len(out[c].listing) = 3
    /\ Len(out[c].listing[1]) = 2
    /\ Len(out[c].listing[2]) = 5
    /\ Len(out[c].listing[3]) = 2

(***************************************************************************)
(* C11: when an unlock fails on the count of cleared records, it reports   *)
(* "no locks found" exactly when none of the requested paths was cleared   *)
(* and the "N of M" message exactly when at least one, but not all, of the *)
(* requested paths were cleared; the return status is 1 in both cases.     *)
(***************************************************************************)
\* the requested paths that the scan of c's unlock clears
ClearedPaths(c) ==
  {wfile \in Elems(inv[c].files) :
     IF inv[c].force THEN RecordsFor(mirror[c].wfile, c, wfile) # <<>>
     ELSE OwnCount(mirror[c].wfile, c, wfile) >= 1}

NoLocksFound(warn) ==
  \E k \in DOMAIN warn : warn[k] = <<"No locks found for specified file">>

PartialCount(warn) ==
  \E k \in DOMAIN warn :
    /\ Len(warn[k]) = 3
    /\ warn[k][1] = "Only %d of %d files were locked"

C11_Step ==
  \A c \in Clients :
    (pc[c] = "unlock" /\ Moved(c) /\ out'[c].status = "return 1")
      => /\ NoLocksFound(out'[c].warn) <=> ClearedPaths(c) = {}
         /\ PartialCount(out'[c].warn)
              <=> (ClearedPaths(c) # {} /\ ClearedPaths(c) # Elems(inv[c].files))

C11_Messages == [][C11_Step]_vars

(***************************************************************************)
(* C12: when the mirror has no registry file after the reconcile, the      *)
(* three commands take the registry as empty and raise no error: locks     *)
(* reports no path as locked, lock finds no conflict and goes on, unlock   *)
(* ends as a failed validation (status 1) and changes nothing.             *)
(***************************************************************************)
C12_Step ==
  \A c \in Clients :
    (pc[c] \in {"lock", "unlock", "locks"} /\ Moved(c) /\ ~mirror[c].wfile.exists)
      => /\ pc[c] = "locks"
              => /\ pc'[c] = "idle" /\ out'[c].status = "ok"
                 /\ LockedLines(out'[c].listing) = <<>>
         /\ pc[c] = "lock" => pc'[c] = "commit"
         /\ pc[c] = "unlock"
              => /\ pc'[c] = "idle" /\ out'[c].status = "return 1"
                 /\ mirror' = mirror
                 /\ upstream' = upstream

C12_MissingFile == [][C12_Step]_vars

(***************************************************************************)
(* C13: a pull that fails during the reconcile ends locks, lock and unlock *)
(* with a fatal error: after it the command reads no lock mapping, writes  *)
(* nothing to the mirror's registry file, commits and pushes nothing, and  *)
(* the upstream registry is unchanged; a command goes on past the          *)
(* reconcile only with the pulled state.                                   *)
(***************************************************************************)
C13_Step ==
  \A c \in Clients :
    /\ (pc[c] = "lsync" /\ Moved(c))
         => /\ upstream' = upstream
            /\ IF pc'[c] = "idle"
                 THEN /\ out'[c] = [NoOut EXCEPT !.status = "fatal"]
                      /\ mirror'[c].local = <<>>
                      /\ mirror'[c].base = mirror[c].base
                      /\ mirror'[c].wfile =
                           IF upstream[mirror[c].base].file.exists
                             THEN upstream[mirror[c].base].file
                             ELSE mirror[c].wfile
                 ELSE /\ pc'[c] = inv[c].cmd
                      /\ mirror'[c].base = Tip
    /\ (pc[c] = "idle" /\ out[c].status = "fatal" /\ Moved(c))
         => /\ pc'[c] = "lsync"
            /\ mirror' = mirror
            /\ upstream' = upstream

\* the command that ended in the fatal error has left no commit, no warning
\* of a read mapping and no listing
C13_State ==
  \A c \in Clients :
    (pc[c] = "idle" /\ out[c].status = "fatal")
      => /\ mirror[c].local = <<>>
         /\ ~dirty(mirror[c])
         /\ out[c].warn = <<>>
         /\ out[c].listing = <<>>

C13_PullFailure == [](C13_State) /\ [][C13_Step]_vars

\* a lock has ended in the fatal error and has appended nothing; its mirror
\* is behind the upstream tip
C13_Witness ==
  \E c \in Clients :
    /\ pc[c] = "idle" /\ inv[c].cmd = "lock" /\ out[c].status = "fatal"
    /\ inv[c].files # <<>>
    /\ mirror[c].base < Tip
    /\ mirror[c].wfile # Registry

(***************************************************************************)
(* C14: when the reconcile completes without error, the registry file of   *)
(* the mirror is identical to the registry file of the upstream tip at the *)
(* moment of the pull, whatever the mirror held before: uncommitted        *)
(* changes of the file, unpushed commits, or a file that was never         *)
(* committed.                                                              *)
(***************************************************************************)
C14_Step ==
  \A c \in Clients :
    (pc[c] = "lsync" /\ Moved(c) /\ pc'[c] # "idle")
      => mirror'[c].wfile = Registry

C14_Reconciled == [][C14_Step]_vars

(***************************************************************************)
(* C15: a successful unlock rewrites the registry with exactly the kept    *)
(* lines: every line of the reconciled file that is not cleared (a record  *)
(* of another repository or branch, a record of a path not requested, a    *)
(* line that does not split into five fields) is still there, unchanged    *)
(* and in the same order, and only the cleared lines are gone.             *)
(***************************************************************************)
\* `lines` without the lines that the unlock of `ulock` by c clears
RECURSIVE NotCleared(_, _, _, _)
NotCleared(lines, c, ulock, force) ==
  IF lines = <<>> THEN <<>>
  ELSE (IF /\ IsRecord(Head(lines))
           /\ Fields(Head(lines))[1] = repoid(c)
           /\ Fields(Head(lines))[2] = curbranch(c)
           /\ Fields(Head(lines))[3] \in Elems(ulock)
           /\ (Fields(Head(lines))[4] = username(c) \/ force)
          THEN <<>> ELSE <<Head(lines)>>)
       \o NotCleared(Tail(lines), c, ulock, force)

C15_Step ==
  \A c \in Clients :
    (pc[c] = "unlock" /\ Moved(c) /\ pc'[c] = "commit")
      => mirror'[c].wfile.lines
           = NotCleared(mirror[c].wfile.lines, c, inv[c].files, inv[c].force)

C15_KeptLines == [][C15_Step]_vars

(***************************************************************************)
(* C16: on a freshly initialised registry (no registry file upstream nor   *)
(* in the mirror) a lock with no concurrent writer publishes its records:  *)
(* afterwards the upstream registry holds one record per target path with  *)
(* the caller's repository, branch, user name and purpose, and the locks   *)
(* listing of any client of the repository and branch reports each path as *)
(* locked by that owner for that purpose.                                  *)
(***************************************************************************)
\* the only command run so far is a lock of client c, and it has returned
FirstLockDone(c) ==
  /\ ninv = 1
  /\ Returned(c, "lock") /\ ~Warned(c)
  /\ NoDup(inv[c].files)

C16_FreshRegistry ==
  \A c \in Clients :
    (~upstream[1].file.exists /\ FirstLockDone(c))
      => \A i \in DOMAIN inv[c].files :
           /\ RecordsFor(Registry, c, inv[c].files[i])
                = <<EncodeLine(repoid(c), curbranch(c), inv[c].files[i],
                               username(c), purposeof(inv[c].purpose))>>
           /\ \A d \in Clients :
                \E k \in DOMAIN NextListing(d) :
                  NextListing(d)[k] = <<inv[c].files[i], "is locked by", username(c),
                                        "for", purposeof(inv[c].purpose)>>

(***************************************************************************)
(* C17: parseLocks returns exactly the mapping path -> (owner, purpose) of *)
(* the registry lines that split into five fields and whose repository and *)
(* branch are the caller's; other lines never appear in it, so a lock held *)
(* on a path under another repository or branch never makes lock fail for *)
(* the same path under the caller's.                                       *)
(***************************************************************************)
\* the paths of the records of file f, of any repository and branch
PathsIn(f) ==
  {Fields(f.lines[i])[3] : i \in {j \in DOMAIN f.lines : IsRecord(f.lines[j])}}

\* the last of a non-empty sequence
Last(seq) == seq[Len(seq)]

\* where lock and locks read the mapping, it is the one of the records of
\* the caller's repository and branch, the last record of a path giving its
\* owner and purpose
C17_State ==
  \A c \in Clients :
    pc[c] \in {"lock", "locks"}
      => LET f == mirror[c].wfile
             locks == mylocks(c)
         IN /\ DOMAIN locks = {wfile \in PathsIn(f) : RecordsFor(f, c, wfile) # <<>>}
            /\ \A wfile \in DOMAIN locks :
                 LET last == Fields(Last(RecordsFor(f, c, wfile)))
                 IN locks[wfile] = <<last[4], last[5]>>

C17_Step ==
  \A c \in Clients :
    (/\ pc[c] = "lock" /\ Moved(c)
     /\ \A i \in DOMAIN inv[c].files :
          RecordsFor(mirror[c].wfile, c, inv[c].files[i]) = <<>>)
      => pc'[c] = "commit"

C17_Mapping == [](C17_State) /\ [][C17_Step]_vars

\* a lock of a path has been pushed while the registry holds a record of the
\* path for another repository and one for another branch
C17_Witness ==
  \E c \in Clients : \E wfile \in Paths :
    /\ Returned(c, "lock") /\ ~Warned(c)
    /\ inv[c].files = <<wfile>>
    /\ OnlyRecordIsOf(Registry, c, wfile)
    /\ \E i, j \in DOMAIN Registry.lines :
         /\ IsRecordOf(Registry.lines[i], W("B"), curbranch(c), wfile)
         /\ IsRecordOf(Registry.lines[j], repoid(c), W("stable"), wfile)
    /\ DOMAIN mylocks(c) = {wfile}

(***************************************************************************)
(* The codec on purposes as the command line gives them: lock accepts any  *)
(* text after -p, white space at its ends included.                        *)
(***************************************************************************)
\* -p "", -p "fix ", -p " ", -p "fix asset"
CodecPurposes == {<<>>, <<"fix", SP>>, <<SP>>, <<"fix", SP, "asset">>}

\* hg lock -p TEXT f
CodecLock(c) ==
  \E purpose \in CodecPurposes :
    invoke(c, [NoInv EXCEPT !.cmd = "lock", !.files = <<W("f")>>,
                            !.purpose = purpose])

CodecNext ==
  \E c \in Clients :
    \/ CodecLock(c)
    \/ InvokeUnlock(c)
    \/ InvokeLocks(c)
    \/ Lsync(c)
    \/ LockBody(c)
    \/ UnlockBody(c)
    \/ LocksBody(c)
    \/ Commit(c)
    \/ PushNothing(c)
    \/ PushOk(c)
    \/ PushFails(c)

CodecSpec == Init /\ [][CodecNext]_vars

(***************************************************************************)
(* C18: decoding a well-formed record line (five tab-separated fields and  *)
(* a newline) as parseLocks and unlock do and encoding the five fields     *)
(* again as lock does gives the line back; decoding a line whose field     *)
(* count is not five gives "skip", never an error.                         *)
(***************************************************************************)
\* the text of a line before its newline
Body(line) == SubSeq(line, 1, Len(line) - 1)

\* five non-empty fields between tabs, then the newline
WellFormed(line) ==
  /\ line # <<>> /\ line[Len(line)] = NL
  /\ \A i \in DOMAIN Body(line) : Body(line)[i] # NL
  /\ Len(split(Body(line))) = 5
  /\ \A k \in 1..5 : split(Body(line))[k] # <<>>

\* decode, then encode
Recoded(line) ==
  EncodeLine(Fields(line)[1], Fields(line)[2], Fields(line)[3],
             Fields(line)[4], Fields(line)[5])

RoundTrips(line) ==
  /\ WellFormed(line) => (Len(Fields(line)) = 5 /\ Recoded(line) = line)
  /\ Len(Fields(line)) # 5
       => \A c \in Clients :
            parseLine(NoLocks, line, repoid(c), curbranch(c)) = NoLocks

C18_RoundTrip ==
  /\ \A i \in DOMAIN Registry.lines : RoundTrips(Registry.lines[i])
  /\ \A c \in Clients : \A i \in DOMAIN mirror[c].wfile.lines :
       RoundTrips(mirror[c].wfile.lines[i])

(***************************************************************************)
(* C19: a well-formed record that is in the upstream registry stays there, *)
(* unchanged, through every step of every client (reconciles, listings,    *)
(* locks, rejected pushes, unlocks of other paths, repositories or         *)
(* branches) until an unlock of its repository, branch and path, run by    *)
(* its owner or with force, is pushed.                                     *)
(***************************************************************************)
\* how many times `line` occurs among `lines`
Count(line, lines) == Cardinality({i \in DOMAIN lines : lines[i] = line})

\* the step is the push of an unlock of client c that may remove `line`
UnlockPushed(c, line) ==
  /\ Moved(c) /\ pc[c] = "push" /\ inv[c].cmd = "unlock"
  /\ Fields(line)[1] = repoid(c)
  /\ Fields(line)[2] = curbranch(c)
  /\ Fields(line)[3] \in Elems(inv[c].files)
  /\ (Fields(line)[4] = username(c) \/ inv[c].force)

C19_Step ==
  upstream' # upstream
    => /\ Len(upstream') > Len(upstream)
       /\ SubSeq(upstream', 1, Len(upstream)) = upstream
       /\ \A i \in DOMAIN Registry.lines :
            LET line == Registry.lines[i]
            IN IsRecord(line)
                 => \/ Count(line, upstream'[Len(upstream')].file.lines)
                         >= Count(line, Registry.lines)
                    \/ \E c \in Clients : UnlockPushed(c, line)

RetryLock(c) ==
  \E wfile \in Paths :
    invoke(c, [NoInv EXCEPT !.cmd = "lock", !.files = <<wfile>>])

\* the same lock command is entered again after its push has failed
Retry(c) ==
  /\ pc[c] = "idle"
  /\ inv[c].cmd = "lock"
  /\ Warned(c)
  /\ inv' = [inv EXCEPT ![c].retry = TRUE]
  /\ pc' = [pc EXCEPT ![c] = "lsync"]
  /\ out' = [out EXCEPT ![c] = NoOut]
  /\ UNCHANGED <<upstream, mirror, ninv>>

RetryNext ==
  \E c \in Clients :
    \/ RetryLock(c)
    \/ Retry(c)
    \/ Lsync(c)
    \/ LockBody(c)
    \/ Commit(c)
    \/ PushNothing(c)
    \/ PushOk(c)
    \/ PushFails(c)

RetryFairness ==
  \A c \in Clients :
    /\ WF_vars(Retry(c))
    /\ WF_vars(Lsync(c))
    /\ []<>(pc[c] # "lock")
    /\ WF_vars(Commit(c))
    /\ WF_vars(PushNothing(c))
    /\ WF_vars(PushOk(c) \/ PushFails(c))
    /\ SF_vars(PushOk(c))

RetrySpec == Init /\ [][RetryNext]_vars /\ RetryFairness

(***************************************************************************)
(* C20: progress on retry.  If a client's lock push was rejected and the   *)
(* client enters the lock of the same path again, then, provided no other  *)
(* client pushes between that invocation's pull and its push and the path  *)
(* is not locked upstream at the pull, the invocation's push succeeds and  *)
(* the record becomes part of the upstream registry; a client that keeps   *)
(* retrying a lock on a path that stays unlocked upstream eventually       *)
(* acquires it.                                                            *)
(*                                                                         *)
(* As stated (C20_Original) the first half says that the push of such an   *)
(* invocation succeeds.  It does not when the push aborts for a reason     *)
(* other than a competing push: commitpush catches every error.Abort.      *)
(* What holds (C20_Retry): the upstream does not refuse the push of such   *)
(* an invocation; when the push is not aborted it publishes exactly the    *)
(* client's changeset on top of the tip that was pulled, with a record of  *)
(* the path owned by the client; when it is aborted the client is told to  *)
(* retry; and, under the fairness of RetrySpec, a client whose lock push   *)
(* failed eventually owns a record of the path upstream unless somebody    *)
(* else has locked the path.                                               *)
(***************************************************************************)
\* c's re-entered lock is at its push, it has committed a record, and nobody
\* has pushed since its pull
RetryAtPush(c) ==
  /\ pc[c] = "push"
  /\ inv[c].cmd = "lock"
  /\ inv[c].retry
  /\ mirror[c].local # <<>>
  /\ mirror[c].base = Tip

\* c owns a record of every path of its command in the upstream registry
Acquired(c) ==
  \A wfile \in Elems(inv[c].files) : OwnCount(Registry, c, wfile) >= 1

\* somebody else owns a record of a path of c's command upstream
LockedByOther(c) ==
  \E wfile \in Elems(inv[c].files) :
    \E i \in DOMAIN Owners(Registry, c, wfile) :
      Owners(Registry, c, wfile)[i] # username(c)

\* c's lock command has returned with the retry warning
PushFailed(c) == pc[c] = "idle" /\ inv[c].cmd = "lock" /\ Warned(c)

\* C20 as stated: the push of a re-entered lock that nobody has overtaken
\* since its pull succeeds and publishes the client's record of the path
C20_OriginalStep ==
  \A c \in Clients :
    (RetryAtPush(c) /\ Moved(c)) =>
      /\ upstream' # upstream
      /\ \A wfile \in Elems(inv[c].files) : OwnCount(Registry', c, wfile) >= 1

C20_State ==
  \A c \in Clients : RetryAtPush(c) => ENABLED PushOk(c)

\* C20, what holds: the push publishes the client's changeset and record, or
\* it aborts and the client is told to retry
C20_Step ==
  \A c \in Clients :
    (RetryAtPush(c) /\ Moved(c)) =>
      \/ /\ upstream' = Append(upstream, Changeset(mirror[c].wfile, Tip, c))
         /\ \A wfile \in Elems(inv[c].files) :
              OwnCount(Registry', c, wfile) >= 1
         /\ out'[c].status = "ok"
         /\ ~HasPushWarning(out'[c].warn)
      \/ /\ upstream' = upstream
         /\ out'[c].status = "ok"
         /\ HasPushWarning(out'[c].warn)

\* C20, what holds: a client whose lock push failed comes to own the record
\* upstream, unless somebody else has locked the path
C20_Progress ==
  \A c \in Clients : PushFailed(c) ~> (Acquired(c) \/ LockedByOther(c))

====
